---- MODULE Spec2Model ----
(***************************************************************************)
(* The glog repository holds two logging programs:                         *)
(*   g_log.py      Glogger (producer side) and LogWorker (a writer process *)
(*                 fed through a multiprocessing queue);                   *)
(*   glog/glog.py  GLogger with one TimedRotatingFileHandler per level,    *)
(*                 in direct mode or behind a QueueListener, and the       *)
(*                 retention sweep cleanup_old_logs.                       *)
(* One run of the model is one run of one program; `program` says which.   *)
(* The file system below the Logs directory is a function from paths       *)
(* (sequences of names) to nodes.  Time is a day number (an ordinal in the *)
(* small calendar below); a log record is its enqueue number, its level    *)
(* and the day of its timestamp; one record is one unit of file size.      *)
(***************************************************************************)
EXTENDS Integers, Sequences, FiniteSets, TLC

VARIABLES
    program,        \* which program this run is: "Glogger" (g_log.py),
                    \* "LogWorker" (its process_log_data alone)
    clock,          \* today, a day ordinal (datetime.now().date())
    fs,             \* the tree below Logs/: path -> [kind, content]
    \* ---- g_log.py
    producer,       \* "running" | "joining" | "stopped" | "dead"
    log_queue,      \* multiprocessing.Queue: records and None sentinels, FIFO
    logged,         \* history: every record log() has put, in order
    nstops,         \* history: number of stop_logging() calls
    stop_mark,      \* history: Len(logged) at the latest stop_logging() call
    wpc,            \* LogWorker: "start" | "alive_check" | "get" |
                    \*            "sentinel" | "orphan" | "crashed"
    current_date,   \* LogWorker.current_date
    handlers,       \* logger.handlers: MemoryHandler -> RotatingFileHandler
    dequeued,       \* history: ids of the records the LogWorker has taken
    leftover,       \* history: the queue as it was when the LogWorker ended
    rotations,      \* history: level -> number of doRollover calls
    archived,       \* history: the backups made, [level, path, content]
    is_multiprocessing,   \* glog.py: GLogger.is_multiprocessing
    backupCount,          \* glog.py: the backupCount of the file handlers
    log_retention_days,   \* glog.py: GLogger.log_retention_days
    file_handlers,        \* glog.py: level -> CustomTimedRotatingFileHandler
    loggers,              \* glog.py: level -> the handlers of its logger
    queue_listener,       \* glog.py: [handlers, thread] of the QueueListener
    before,               \* history: the tree a retention sweep started on
    telegram_alert,       \* glog.py: GLogger.telegram_alert
    telegram_bot_token,   \* glog.py: GLogger.telegram_bot_token ("" for None)
    telegram_user_ids,    \* glog.py: GLogger.telegram_user_ids
    sending,              \* glog.py: the send_telegram_alert call in progress
    attempts,             \* history: the requests.post calls that returned
    dispatches,           \* history: ids of the records send_telegram_alert got
    date_changes,   \* history: ids of records that arrived with a new date
    unclosed        \* streams of dropped handlers that nothing has closed

wvars == <<producer, log_queue, logged, nstops, stop_mark, wpc, current_date, handlers,
           dequeued, leftover, rotations, archived, date_changes,
           unclosed>>

avars == <<telegram_alert, telegram_bot_token, telegram_user_ids, sending,
           attempts, dispatches>>

gvars == <<is_multiprocessing, backupCount, log_retention_days,
           file_handlers, loggers, queue_listener, before, avars>>

vars == <<program, clock, fs, wvars, gvars>>

----------------------------------------------------------------------------
(* Bounds of the model.                                                    *)

\* log() calls in one run
MaxRecords == 3
\* records handed straight to process_log_data in one run
MaxHandled == 7
\* stop_logging() calls in one run
MaxStops == 2
\* midnights that pass in one run
MaxDays == 2
\* RotatingFileHandler maxBytes (256 MiB in the source), in records
MaxBytes == 3
\* MemoryHandler capacity (500 in the source), in records
BufferCapacity == 2
\* RotatingFileHandler backupCount (50 in the source)
BackupCount == 2

----------------------------------------------------------------------------
(* Severity levels.                                                        *)

\* the insertion order of log_file_paths, which is the order of logger.handlers
LevelNames == <<"DEBUG", "INFO", "WARNING", "ERROR", "CRITICAL">>

VALID_LOG_LEVELS == {LevelNames[i] : i \in 1..Len(LevelNames)}

\* the level strings log() is given here: a low and a high valid level, and
\* one that is not valid
InputLevels == {"DEBUG", "CRITICAL", "TRACE"}

\* getattr(logging, level)
LevelNo(level) ==
    CASE level = "DEBUG"    -> 10
      [] level = "INFO"     -> 20
      [] level = "WARNING"  -> 30
      [] level = "ERROR"    -> 40
      [] level = "CRITICAL" -> 50

\* MemoryHandler's default flushLevel, logging.ERROR
FlushLevel == 40

\* the file each level's handler writes, without the ".txt"
FileRoot(level) ==
    CASE level = "DEBUG"    -> "Debug"
      [] level = "INFO"     -> "Info"
      [] level = "WARNING"  -> "Warning"
      [] level = "ERROR"    -> "Error"
      [] level = "CRITICAL" -> "Critical"

----------------------------------------------------------------------------
(* The calendar: the years 2023 and 2024; day ordinal 1 is 1 January 2023. *)

\* the months of a year that has `first` days before it and `leap` days more
\* in February: strftime("%B"), strftime("%b"), strftime("%m"), the days of
\* the month and the days before it
Year(Y, first, leap) ==
    << [Y |-> Y, B |-> "January",   b |-> "Jan", m |-> "01", days |-> 31,
        before |-> first + 0],
       [Y |-> Y, B |-> "February",  b |-> "Feb", m |-> "02", days |-> 28 + leap,
        before |-> first + 31],
       [Y |-> Y, B |-> "March",     b |-> "Mar", m |-> "03", days |-> 31,
        before |-> first + 59 + leap],
       [Y |-> Y, B |-> "April",     b |-> "Apr", m |-> "04", days |-> 30,
        before |-> first + 90 + leap],
       [Y |-> Y, B |-> "May",       b |-> "May", m |-> "05", days |-> 31,
        before |-> first + 120 + leap],
       [Y |-> Y, B |-> "June",      b |-> "Jun", m |-> "06", days |-> 30,
        before |-> first + 151 + leap],
       [Y |-> Y, B |-> "July",      b |-> "Jul", m |-> "07", days |-> 31,
        before |-> first + 181 + leap],
       [Y |-> Y, B |-> "August",    b |-> "Aug", m |-> "08", days |-> 31,
        before |-> first + 212 + leap],
       [Y |-> Y, B |-> "September", b |-> "Sep", m |-> "09", days |-> 30,
        before |-> first + 243 + leap],
       [Y |-> Y, B |-> "October",   b |-> "Oct", m |-> "10", days |-> 31,
        before |-> first + 273 + leap],
       [Y |-> Y, B |-> "November",  b |-> "Nov", m |-> "11", days |-> 30,
        before |-> first + 304 + leap],
       [Y |-> Y, B |-> "December",  b |-> "Dec", m |-> "12", days |-> 31,
        before |-> first + 334 + leap] >>

Calendar == Year("2023", 0, 0) \o Year("2024", 365, 1)

\* strftime("%d") of the days of a month
DayNames ==
    << "01", "02", "03", "04", "05", "06", "07", "08", "09", "10",
       "11", "12", "13", "14", "15", "16", "17", "18", "19", "20",
       "21", "22", "23", "24", "25", "26", "27", "28", "29", "30", "31" >>

\* the days before the first of month k
DaysBefore(k) == Calendar[k].before

\* the month a day falls in
MonthIndex(n) ==
    CHOOSE k \in 1..Len(Calendar) :
        Calendar[k].before < n /\ n <= Calendar[k].before + Calendar[k].days

\* the day a run starts on: 30 January 2024
FirstDay == 395

\* now.strftime("%Y"), now.strftime("%b"), now.strftime("%d")
LogDirPath(day) ==
    LET k == MonthIndex(day)
    IN  << Calendar[k].Y, Calendar[k].b, DayNames[day - DaysBefore(k)] >>

----------------------------------------------------------------------------
(* The file system.                                                        *)

Dir == [kind |-> "dir", content |-> << >>]
File(content) == [kind |-> "file", content |-> content]

Exists(f, path) == path \in DOMAIN f

\* os.makedirs(path): the directory and every missing parent
MakeDirs(f, path) ==
    LET missing == {SubSeq(path, 1, n) : n \in 1..Len(path)} \ DOMAIN f
    IN  f @@ [p \in missing |-> Dir]

\* open(path, "a"): the file is created empty when it is not there
OpenAppend(f, path) == IF Exists(f, path) THEN f ELSE f @@ (path :> File(<< >>))

\* os.rename(src, dst)
Rename(f, src, dst) ==
    [p \in (DOMAIN f \ {src}) \cup {dst} |-> IF p = dst THEN f[src] ELSE f[p]]

\* os.remove(path)
Remove(f, path) == [p \in DOMAIN f \ {path} |-> f[p]]

\* stream.write of one formatted record
Write(f, path, id) == [f EXCEPT ![path].content = Append(@, id)]

----------------------------------------------------------------------------
(* g_log.py: the handlers of the LogWorker.  A disk is the file system     *)
(* with the count of rollovers done on each level's file and the backups   *)
(* made: [fs |-> ..., rot |-> [level -> Nat], arch |-> <<[path, content]>>]. *)

\* os.path.join(log_dir_path, "Debug.txt") and the like
BasePath(dir, level) == Append(dir, FileRoot(level) \o ".txt")

\* os.path.join(dir_name, f"{file_root}{num}.txt")
BackupPath(dir, level, num) ==
    Append(dir, FileRoot(level) \o ToString(num) \o ".txt")

RECURSIVE Probe(_, _, _, _)
Probe(f, dir, level, num) ==
    IF Exists(f, BackupPath(dir, level, num))
    THEN Probe(f, dir, level, num + 1)
    ELSE BackupPath(dir, level, num)

\* the name logging builds when no namer is set: "<base>.<i>"
DefaultName(f, dir, level, i) ==
    Append(dir, FileRoot(level) \o ".txt." \o ToString(i))

\* custom_namer("<base>.<i>"): the index i is cut off with the extension and
\* the first name <root><num>.txt that is not in use is returned
custom_namer(f, dir, level, i) == Probe(f, dir, level, 1)

\* one turn of the loop of doRollover: <base>.<i> becomes <base>.<i+1>
ShiftOne(f, sfn, dfn) ==
    IF Exists(f, sfn)
    THEN Rename(IF Exists(f, dfn) THEN Remove(f, dfn) ELSE f, sfn, dfn)
    ELSE f

\* RotatingFileHandler.doRollover, "for i in range(backupCount - 1, 0, -1)"
RECURSIVE ShiftBackups(_, _, _, _)
ShiftBackups(f, dir, level, i) ==
    IF i < 1
    THEN f
    ELSE ShiftBackups(ShiftOne(f, custom_namer(f, dir, level, i),
                                  custom_namer(f, dir, level, i + 1)),
                      dir, level, i - 1)

\* doRollover: "if os.path.exists(dfn): os.remove(dfn)", then
\* rotate(baseFilename, dfn), which renames the file when it is there
Rotate(f, base, dfn) ==
    LET r == IF Exists(f, dfn) THEN Remove(f, dfn) ELSE f
    IN  IF Exists(r, base) THEN Rename(r, base, dfn) ELSE r

\* doRollover after its loop: dfn = rotation_filename(baseFilename + ".1")
RotateBase(f, dir, level) ==
    Rotate(f, BasePath(dir, level), custom_namer(f, dir, level, 1))

\* the backup rotate() makes, noted: its name and what it holds
Archive(arch, f, dir, level) ==
    IF Exists(f, BasePath(dir, level))
    THEN Append(arch, [level   |-> level,
                       path    |-> custom_namer(f, dir, level, 1),
                       content |-> f[BasePath(dir, level)].content])
    ELSE arch

\* RotatingFileHandler.doRollover with namer = custom_namer; the new stream
\* is opened at once (delay is False)
doRollover(d, dir, level) ==
    [fs  |-> OpenAppend(IF BackupCount > 0
                        THEN RotateBase(ShiftBackups(d.fs, dir, level,
                                                     BackupCount - 1),
                                        dir, level)
                        ELSE d.fs,
                        BasePath(dir, level)),
     rot |-> [d.rot EXCEPT ![level] = @ + 1],
     arch |-> IF BackupCount > 0
              THEN Archive(d.arch,
                           ShiftBackups(d.fs, dir, level, BackupCount - 1),
                           dir, level)
              ELSE d.arch]

\* RotatingFileHandler.shouldRollover: tell() + len(msg) >= maxBytes
shouldRollover(f, dir, level) ==
    Len(f[BasePath(dir, level)].content) + 1 >= MaxBytes

\* FileHandler.emit: the record goes to the stream
StreamEmit(d, dir, level, id) ==
    [d EXCEPT !.fs = Write(@, BasePath(dir, level), id)]

\* RotatingFileHandler.emit: "if self.shouldRollover(record): self.doRollover()"
RotatingEmit(d, dir, level, id) ==
    StreamEmit(IF shouldRollover(d.fs, dir, level)
               THEN doRollover(d, dir, level)
               ELSE d,
               dir, level, id)

\* a flush that would hand the buffer over newest first
RECURSIVE MemoryFlushNewestFirst(_, _, _, _)
MemoryFlushNewestFirst(d, dir, level, buffer) ==
    IF buffer = << >>
    THEN d
    ELSE MemoryFlushNewestFirst(
             RotatingEmit(d, dir, level, buffer[Len(buffer)].id),
             dir, level, SubSeq(buffer, 1, Len(buffer) - 1))

\* MemoryHandler.flush: the buffered records go to the target, oldest first
RECURSIVE MemoryFlush(_, _, _, _)
MemoryFlush(d, dir, level, buffer) ==
    IF buffer = << >>
    THEN d
    ELSE MemoryFlush(RotatingEmit(d, dir, level, Head(buffer).id),
                     dir, level, Tail(buffer))

\* MemoryHandler.shouldFlush
shouldFlush(buffer, rec) ==
    Len(buffer) >= BufferCapacity \/ LevelNo(rec.level) >= FlushLevel

\* MemoryHandler.emit: what it does to the disk
MemoryEmitDisk(d, h, rec) ==
    IF shouldFlush(Append(h.buffer, rec), rec)
    THEN MemoryFlush(d, h.dir, h.level, Append(h.buffer, rec))
    ELSE d

\* MemoryHandler.emit: what it does to the handler
MemoryEmit(h, rec) ==
    IF shouldFlush(Append(h.buffer, rec), rec)
    THEN [h EXCEPT !.buffer = << >>]
    ELSE [h EXCEPT !.buffer = Append(@, rec)]

\* Logger.callHandlers: "if record.levelno >= hdlr.level"
Reaches(h, rec) == LevelNo(rec.level) >= LevelNo(h.level)

\* Logger.handle -> callHandlers, the handlers after the record
CallHandlers(hs, rec) ==
    [i \in 1..Len(hs) |-> IF Reaches(hs[i], rec) THEN MemoryEmit(hs[i], rec)
                                                 ELSE hs[i]]

\* Logger.handle -> callHandlers, the disk after the record
RECURSIVE CallHandlersDisk(_, _, _, _)
CallHandlersDisk(d, hs, i, rec) ==
    IF i > Len(hs)
    THEN d
    ELSE CallHandlersDisk(IF Reaches(hs[i], rec)
                          THEN MemoryEmitDisk(d, hs[i], rec)
                          ELSE d,
                          hs, i + 1, rec)

\* setup_log_handler: a RotatingFileHandler (its file is opened at once)
\* wrapped in a MemoryHandler, which is what the logger gets
setup_log_handler(level, dir) ==
    [class |-> "MemoryHandler", level |-> level, buffer |-> << >>, dir |-> dir]

\* the five RotatingFileHandlers open their files, which makes the files
\* that are not there
OpenAll(f, dir) ==
    f @@ [p \in {BasePath(dir, LevelNames[i]) : i \in 1..Len(LevelNames)}
                \ DOMAIN f |-> File(<< >>)]

\* initialize_logger: today's directory and the five files opened
InitializeDisk(d, today) ==
    [d EXCEPT !.fs = OpenAll(MakeDirs(@, LogDirPath(today)),
                             LogDirPath(today))]

\* initialize_logger: handlers.clear(), then five new handlers.  The handlers
\* that were there are dropped unflushed, with what they buffer.
initialize_logger(today) ==
    [i \in 1..Len(LevelNames) |->
        setup_log_handler(LevelNames[i], LogDirPath(today))]

\* rollover: doRollover on the handlers that are RotatingFileHandlers
RECURSIVE rollover(_, _, _)
rollover(d, hs, i) ==
    IF i > Len(hs)
    THEN d
    ELSE rollover(IF hs[i].class = "RotatingFileHandler"
                  THEN doRollover(d, hs[i].dir, hs[i].level)
                  ELSE d,
                  hs, i + 1)

\* process_log_data: "fromtimestamp(timestamp).date() != self.current_date"
DateChanged(cur, rec) == rec.timestamp # cur

\* process_log_data up to the level test: rollover(), initialize_logger()
DateCheckDisk(d, hs, cur, today, rec) ==
    IF DateChanged(cur, rec)
    THEN InitializeDisk(rollover(d, hs, 1), today)
    ELSE d

DateCheck(hs, cur, today, rec) ==
    IF DateChanged(cur, rec) THEN initialize_logger(today) ELSE hs

\* the streams the RotatingFileHandlers behind the handlers hs hold open:
\* each opened its file when it was made
Streams(hs) ==
    [i \in 1..Len(hs) |->
        [level |-> hs[i].level, path |-> BasePath(hs[i].dir, hs[i].level)]]

\* initialize_logger on a date change: handlers.clear() drops the handlers
\* without close().  Their streams are closed only if the interpreter
\* finalizes the dropped objects at once (reference counting does, another
\* garbage collector does it later); otherwise they stay open.
Dropped(hs, cur, rec, finalized) ==
    IF DateChanged(cur, rec) /\ ~ finalized THEN Streams(hs) ELSE << >>

\* process_log_data: an invalid level raises ValueError
Raises(rec) == rec.level \notin VALID_LOG_LEVELS

\* process_log_data, the disk after it
ProcessDisk(d, hs, cur, today, rec) ==
    IF Raises(rec)
    THEN DateCheckDisk(d, hs, cur, today, rec)
    ELSE CallHandlersDisk(DateCheckDisk(d, hs, cur, today, rec),
                          DateCheck(hs, cur, today, rec), 1, rec)

\* process_log_data, the handlers after it
process_log_data(hs, cur, today, rec) ==
    IF Raises(rec)
    THEN DateCheck(hs, cur, today, rec)
    ELSE CallHandlers(DateCheck(hs, cur, today, rec), rec)

\* logging.shutdown, the atexit hook of the logging module: every handler
\* still alive is flushed
RECURSIVE Shutdown(_, _, _)
Shutdown(d, hs, i) ==
    IF i > Len(hs)
    THEN d
    ELSE Shutdown(MemoryFlush(d, hs[i].dir, hs[i].level, hs[i].buffer),
                  hs, i + 1)

\* The end of the LogWorker process.  Whether the atexit hooks run depends on
\* the start method and the Python version (after fork the child leaves by
\* os._exit), so both outcomes are possible.
ProcessExit(d, hs, atexit) == IF atexit THEN Shutdown(d, hs, 1) ELSE d

----------------------------------------------------------------------------
(* g_log.py: Glogger and the LogWorker process.                            *)

\* the sentinel stop_logging() puts
None == [id |-> 0, level |-> "None", timestamp |-> 0]

NoFiles == [p \in {} |-> Dir]
NoRotations == [level \in VALID_LOG_LEVELS |-> 0]

\* no send_telegram_alert call is in progress
NotSending == [id |-> 0, i |-> 0]

\* telegram_alert = False, the default of the constructor
NoAlerts ==
    /\ telegram_alert = FALSE
    /\ telegram_bot_token = ""
    /\ telegram_user_ids = << >>
    /\ sending = NotSending
    /\ attempts = << >>
    /\ dispatches = << >>

\* g_log.py runs: nothing of glog.py is there
NoGLogger ==
    /\ NoAlerts
    /\ is_multiprocessing = FALSE
    /\ backupCount = 0
    /\ log_retention_days = 0
    /\ file_handlers = << >>
    /\ loggers = << >>
    /\ queue_listener = [handlers |-> << >>, thread |-> "none"]
    /\ before = << >>

\* glog.py runs: no LogWorker is there
NoLogWorker ==
    /\ stop_mark = 0
    /\ wpc = "none"
    /\ current_date = 0
    /\ handlers = << >>
    /\ leftover = << >>
    /\ date_changes = {}
    /\ unclosed = << >>

\* the disk of the current state
Disk == [fs |-> fs, rot |-> rotations, arch |-> archived]

\* a join that returns only for a LogWorker that got the sentinel
EndedBySentinel == wpc = "sentinel"

\* the LogWorker process has ended: what log_worker.join() waits for
WorkerEnded == wpc \in {"sentinel", "orphan", "crashed"}

\* Glogger.__init__ has run: the queue is empty, the LogWorker is started and
\* has not yet run; LogWorker.__init__ took current_date in the parent
InitW ==
    /\ program = "Glogger"
    /\ NoGLogger
    /\ clock = FirstDay
    /\ fs = NoFiles
    /\ producer = "running"
    /\ log_queue = << >>
    /\ logged = << >>
    /\ nstops = 0
    /\ stop_mark = 0
    /\ wpc = "start"
    /\ current_date = FirstDay
    /\ handlers = << >>
    /\ dequeued = {}
    /\ leftover = << >>
    /\ rotations = NoRotations
    /\ archived = << >>
    /\ date_changes = {}
    /\ unclosed = << >>

\* midnight passes
Tick ==
    /\ clock < FirstDay + MaxDays
    /\ clock' = clock + 1
    /\ UNCHANGED <<gvars, program, fs, wvars>>

\* Glogger.log(level, message): put_nowait on the unbounded queue
log(level) ==
    /\ program = "Glogger"
    /\ producer \in {"running", "stopped"}
    /\ Len(logged) < MaxRecords
    /\ LET rec == [id |-> Len(logged) + 1, level |-> level, timestamp |-> clock]
       IN  /\ log_queue' = Append(log_queue, rec)
           /\ logged' = Append(logged, rec)
    /\ UNCHANGED <<gvars, program, clock, fs, producer, nstops, stop_mark, wpc,
                   current_date,
                   handlers, dequeued, leftover, rotations, archived,
                   date_changes, unclosed>>

\* Glogger.stop_logging, first half: put_nowait(None)
stop_logging ==
    /\ program = "Glogger"
    /\ producer \in {"running", "stopped"}
    /\ nstops < MaxStops
    /\ log_queue' = Append(log_queue, None)
    /\ nstops' = nstops + 1
    /\ stop_mark' = Len(logged)
    /\ producer' = "joining"
    /\ UNCHANGED <<gvars, program, clock, fs, logged, wpc, current_date, handlers,
                   dequeued, leftover, rotations, archived, date_changes, unclosed>>

\* Glogger.stop_logging, second half: log_worker.join() returns
join ==
    /\ program = "Glogger"
    /\ producer = "joining"
    /\ WorkerEnded
    /\ producer' = "stopped"
    /\ UNCHANGED <<gvars, program, clock, fs, log_queue, logged, nstops, stop_mark, wpc,
                   current_date, handlers, dequeued, leftover, rotations,
                   archived, date_changes, unclosed>>

\* the producer process ends or is killed outside stop_logging(); nothing
\* more is put
ProducerDies ==
    /\ program = "Glogger"
    /\ producer = "running"
    /\ producer' = "dead"
    /\ UNCHANGED <<gvars, program, clock, fs, log_queue, logged, nstops, stop_mark, wpc,
                   current_date, handlers, dequeued, leftover, rotations,
                   archived, date_changes, unclosed>>

\* LogWorker.run, before the loop: initialize_logger()
run ==
    /\ program = "Glogger"
    /\ wpc = "start"
    /\ fs' = InitializeDisk(Disk, clock).fs
    /\ handlers' = initialize_logger(clock)
    /\ UNCHANGED <<rotations, archived>>
    /\ wpc' = "alive_check"
    /\ UNCHANGED <<gvars, program, clock, producer, log_queue, logged, nstops, stop_mark,
                   current_date, dequeued, leftover, date_changes, unclosed>>

\* the LogWorker process ends for `reason`, leaving `rest` in the queue
Exit(reason, d, hs, rest) ==
    /\ wpc' = reason
    /\ leftover' = rest
    /\ \E atexit \in BOOLEAN :
          \E e \in {ProcessExit(d, hs, atexit)} :
             fs' = e.fs /\ rotations' = e.rot /\ archived' = e.arch
    /\ handlers' = << >>
    /\ unclosed' = << >>

\* LogWorker.run, top of the loop: "if not self.is_parent_alive(): break"
is_parent_alive ==
    /\ program = "Glogger"
    /\ wpc = "alive_check"
    /\ IF producer = "dead"
       THEN Exit("orphan", Disk, handlers, log_queue)
       ELSE /\ wpc' = "get"
            /\ UNCHANGED <<fs, rotations, archived, handlers, leftover,
                           unclosed>>
    /\ UNCHANGED <<gvars, program, clock, producer, log_queue, logged, nstops, stop_mark,
                   current_date, dequeued, date_changes>>

\* LogWorker.run: log_queue.get() has something to return.  get() is called
\* without a timeout, so on an empty queue this step waits.
get ==
    /\ program = "Glogger"
    /\ wpc = "get"
    /\ log_queue # << >>
    /\ log_queue' = Tail(log_queue)
    /\ \E rec \in {Head(log_queue)} :
          IF rec = None
          THEN /\ Exit("sentinel", Disk, handlers,
                       Tail(log_queue))
               /\ UNCHANGED <<current_date, dequeued, date_changes>>
          ELSE \E d \in {ProcessDisk(Disk, handlers,
                                     current_date, clock, rec)} :
               \E hs \in {process_log_data(handlers, current_date, clock, rec)} :
                  /\ dequeued' = dequeued \cup {rec.id}
                  /\ date_changes' = IF DateChanged(current_date, rec)
                                     THEN date_changes \cup {rec.id}
                                     ELSE date_changes
                  /\ current_date' = rec.timestamp
                  /\ IF Raises(rec)
                     THEN Exit("crashed", d, hs, Tail(log_queue))
                     ELSE /\ wpc' = "alive_check"
                          /\ fs' = d.fs
                          /\ rotations' = d.rot
                          /\ archived' = d.arch
                          /\ handlers' = hs
                          /\ \E finalized \in BOOLEAN :
                                unclosed' = unclosed \o
                                    Dropped(handlers, current_date, rec,
                                            finalized)
                          /\ UNCHANGED leftover
    /\ UNCHANGED <<gvars, program, clock, producer, logged, nstops, stop_mark>>

NextW ==
    \/ Tick
    \/ \E level \in InputLevels : log(level)
    \/ stop_logging
    \/ join
    \/ ProducerDies
    \/ run
    \/ is_parent_alive
    \/ get

SpecW == InitW /\ [][NextW]_vars

\* The LogWorker is a process of its own: a step it can take, it takes.
SpecWFair ==
    /\ SpecW
    /\ WF_vars(run)
    /\ WF_vars(is_parent_alive)
    /\ WF_vars(get)

\* log() and stop_logging() calls of a producer that stays alive, within one
\* day, and the LogWorker
NextJ ==
    \/ \E level \in InputLevels : log(level)
    \/ stop_logging
    \/ join
    \/ run
    \/ is_parent_alive
    \/ get

\* log_queue.get() returns: the step `get`, told by what it does to the queue
\* and to the position of the LogWorker.  No other step of NextJ takes the
\* head of the queue, and `get` can be taken whenever this can.
GetReturns ==
    /\ program = "Glogger"
    /\ wpc = "get"
    /\ log_queue # << >>
    /\ log_queue' = Tail(log_queue)
    /\ wpc' \in {"alive_check", "sentinel", "crashed"}

\* The LogWorker is a process of its own, and join() returns once that
\* process has ended.
SpecJ ==
    /\ InitW
    /\ [][NextJ]_vars
    /\ WF_vars(run)
    /\ WF_vars(is_parent_alive)
    /\ WF_<<wpc, log_queue>>(GetReturns)
    /\ WF_vars(join)

----------------------------------------------------------------------------
(* g_log.py: process_log_data alone, on the handlers initialize_logger     *)
(* has set up, given one record after the other.                           *)

InitH ==
    /\ program = "LogWorker"
    /\ NoGLogger
    /\ clock = FirstDay
    /\ fs = InitializeDisk([fs |-> NoFiles, rot |-> NoRotations, arch |-> << >>], FirstDay).fs
    /\ producer = "running"
    /\ log_queue = << >>
    /\ logged = << >>
    /\ nstops = 0
    /\ stop_mark = 0
    /\ wpc = "get"
    /\ current_date = FirstDay
    /\ handlers = initialize_logger(FirstDay)
    /\ dequeued = {}
    /\ leftover = << >>
    /\ rotations = NoRotations
    /\ archived = << >>
    /\ date_changes = {}
    /\ unclosed = << >>

\* process_log_data(log_data) with a record of a valid level
handle(level) ==
    /\ program = "LogWorker"
    /\ Len(logged) < MaxHandled
    /\ \E rec \in {[id |-> Len(logged) + 1, level |-> level,
                    timestamp |-> clock]} :
       \E d \in {ProcessDisk(Disk, handlers,
                             current_date, clock, rec)} :
          /\ logged' = Append(logged, rec)
          /\ dequeued' = dequeued \cup {rec.id}
          /\ date_changes' = IF DateChanged(current_date, rec)
                             THEN date_changes \cup {rec.id}
                             ELSE date_changes
          /\ current_date' = rec.timestamp
          /\ handlers' = process_log_data(handlers, current_date, clock, rec)
          /\ \E finalized \in BOOLEAN :
                unclosed' = unclosed \o
                    Dropped(handlers, current_date, rec, finalized)
          /\ fs' = d.fs
          /\ rotations' = d.rot
          /\ archived' = d.arch
    /\ UNCHANGED <<gvars, program, clock, producer, log_queue, nstops, stop_mark, wpc,
                   leftover>>

NextH ==
    \/ Tick
    \/ \E level \in {"DEBUG", "CRITICAL"} : handle(level)

SpecH == InitH /\ [][NextH]_vars

----------------------------------------------------------------------------
(* glog.py: the retention sweep of CustomTimedRotatingFileHandler.         *)

\* the entries of a directory: os.listdir(path)
Children(f, path) ==
    {q \in DOMAIN f : Len(q) = Len(path) + 1
                      /\ SubSeq(q, 1, Len(path)) = path}

\* os.path.isdir(path)
IsDir(f, path) == Exists(f, path) /\ f[path].kind = "dir"

\* str.isdigit of the names a tree may hold
IsDigit(name) == name \in {"2023", "2024", "123"} \cup {DayNames[n] : n \in 1..31}

\* datetime.strptime(f"{year_dir}-{month_dir}-{day_dir}", "%Y-%B-%d"): the
\* day ordinal, or 0 for the ValueError of a string that is no date
\* (%Y takes four digits, %B a full month name, %d a day of that month,
\* zero-padded or not)
ParseDate(y, m, d) ==
    LET months == {k \in 1..Len(Calendar) :
                      Calendar[k].Y = y /\ Calendar[k].B = m}
        days   == {n \in 1..31 : DayNames[n] = d \/ ToString(n) = d}
        valid  == {DaysBefore(k) + n : k \in months,
                      n \in {x \in days : \A j \in months : x <= Calendar[j].days}}
    IN  IF valid = {} THEN 0 ELSE CHOOSE x \in valid : TRUE

\* the day directories the three nested loops reach: a directory, in a
\* directory, in a directory whose name is all digits
DayDirs(f) ==
    {p \in DOMAIN f : /\ Len(p) = 3
                      /\ IsDir(f, <<p[1]>>) /\ IsDigit(p[1])
                      /\ IsDir(f, <<p[1], p[2]>>)
                      /\ IsDir(f, p)}

\* dir_date < cutoff_date, for a name that parses
IsOld(p, cutoff) ==
    ParseDate(p[1], p[2], p[3]) # 0 /\ ParseDate(p[1], p[2], p[3]) < cutoff

\* os.rmdir(path) of a directory with no entry
RemoveIfEmpty(f, path) ==
    IF Children(f, path) = {} THEN Remove(f, path) ELSE f

\* a sweep that leaves the month and the year directories alone
KeepParents(f, p) == f

\* the month directory, then the year directory, removed when empty
RemoveParents(f, p) ==
    RemoveIfEmpty(RemoveIfEmpty(f, <<p[1], p[2]>>), <<p[1]>>)

\* the day directory without its regular files
RemoveFiles(f, p) ==
    [q \in DOMAIN f \ {c \in Children(f, p) : f[c].kind = "file"} |-> f[q]]

\* the try block of one old day directory: os.rmdir raises on a directory
\* that still has an entry, and the except clause reports it
RemoveDay(f, p) ==
    IF Children(f, p) = {}
    THEN RemoveParents(Remove(f, p), p)
    ELSE f

DeleteDay(f, p) == RemoveDay(RemoveFiles(f, p), p)

RECURSIVE SweepDays(_, _, _)
SweepDays(f, todo, cutoff) ==
    IF todo = {}
    THEN f
    ELSE LET p == CHOOSE q \in todo : TRUE
         IN  SweepDays(IF IsDir(f, p) /\ IsOld(p, cutoff)
                       THEN DeleteDay(f, p)
                       ELSE f,
                       todo \ {p}, cutoff)

\* cleanup_old_logs with datetime.now().date() = today
cleanup_old_logs(f, today, retention) ==
    SweepDays(f, DayDirs(f), today - retention)

----------------------------------------------------------------------------
(* glog.py: CustomTimedRotatingFileHandler.  A handler is the directory of *)
(* the day it was made on, the day of its next rollover and its stream:    *)
(* [dir, rolloverAt, stream].                                              *)

\* logging.getLevelName(level) of the five LOG_LEVELS; "" for another number
getLevelName(levelno) ==
    CASE levelno = 10 -> "DEBUG"
      [] levelno = 20 -> "INFO"
      [] levelno = 30 -> "WARNING"
      [] levelno = 40 -> "ERROR"
      [] levelno = 50 -> "CRITICAL"
      [] OTHER        -> ""

\* f'{self.level_name}.log' with level_name.lower()
LevelFile(level) ==
    CASE level = "DEBUG"    -> "debug.log"
      [] level = "INFO"     -> "info.log"
      [] level = "WARNING"  -> "warning.log"
      [] level = "ERROR"    -> "error.log"
      [] level = "CRITICAL" -> "critical.log"

\* the directory of get_daily_log_file_path: Logs/%Y/%B/%d
DailyDir(day) ==
    LET k == MonthIndex(day)
    IN  << Calendar[k].Y, Calendar[k].B, DayNames[day - DaysBefore(k)] >>

get_daily_log_file_path(dir, level) == Append(dir, LevelFile(level))

\* time.strftime("%Y-%m-%d"), the suffix of when = 'midnight'
DateSuffix(day) ==
    LET k == MonthIndex(day)
    IN  Calendar[k].Y \o "-" \o Calendar[k].m \o "-"
                      \o DayNames[day - DaysBefore(k)]

\* baseFilename + "." + suffix
RotationName(dir, level, day) ==
    Append(dir, LevelFile(level) \o "." \o DateSuffix(day))

\* the days a rollover of a run can be dated
RunDays == (FirstDay - 1)..(FirstDay + MaxDays)

\* the dated backups of a handler that the directory holds
TimedBackups(f, dir, level) ==
    {day \in RunDays : Exists(f, RotationName(dir, level, day))}

\* TimedRotatingFileHandler.getFilesToDelete: nothing while fewer than
\* backupCount backups are there, else all but the backupCount newest
getFilesToDelete(f, dir, level, count) ==
    IF Cardinality(TimedBackups(f, dir, level)) < count
    THEN {}
    ELSE {RotationName(dir, level, day) :
             day \in {x \in TimedBackups(f, dir, level) :
                         Cardinality({y \in TimedBackups(f, dir, level) : y > x})
                            >= count}}

\* os.remove(dfn) if it exists, then rotate(baseFilename, dfn)
TimedRotate(d, level, src, dfn) ==
    IF Exists(d.fs, src)
    THEN [fs   |-> Rename(Remove(d.fs, dfn), src, dfn),
          rot  |-> d.rot,
          arch |-> Append(d.arch, [level   |-> level,
                                   path    |-> dfn,
                                   content |-> d.fs[src].content])]
    ELSE [fs |-> Remove(d.fs, dfn), rot |-> d.rot, arch |-> d.arch]

\* the backups beyond backupCount removed, when backupCount > 0
TimedPrune(f, dir, level, count) ==
    IF count > 0
    THEN [p \in DOMAIN f \ getFilesToDelete(f, dir, level, count) |-> f[p]]
    ELSE f

\* os.listdir(dirName) in getFilesToDelete, or else open(baseFilename, 'a'),
\* raises when the directory is gone
RolloverRaises(f, h) == ~ IsDir(f, h.dir)

\* TimedRotatingFileHandler.doRollover on the files
TimedDoRollover(d, h, level, count) ==
    [TimedRotate(d, level, get_daily_log_file_path(h.dir, level),
                 RotationName(h.dir, level, h.rolloverAt - 1))
        EXCEPT !.fs  = OpenAppend(TimedPrune(@, h.dir, level, count),
                                  get_daily_log_file_path(h.dir, level)),
               !.rot = [@ EXCEPT ![level] = @ + 1]]

\* CustomTimedRotatingFileHandler.doRollover on the files: the rollover of
\* the base class and then the retention sweep, which an exception skips
doRolloverDisk(d, h, level, today, count, retention) ==
    IF RolloverRaises(d.fs, h)
    THEN [d EXCEPT !.rot = [@ EXCEPT ![level] = @ + 1]]
    ELSE [TimedDoRollover(d, h, level, count)
             EXCEPT !.fs = cleanup_old_logs(@, today, retention)]

\* ... and on the handler: the stream is closed first and opened again last,
\* then rolloverAt = computeRollover(currentTime), the next midnight
doRolloverHandler(f, h, today) ==
    IF RolloverRaises(f, h)
    THEN [h EXCEPT !.stream = "closed"]
    ELSE [h EXCEPT !.stream = "open", !.rolloverAt = today + 1]

\* TimedRotatingFileHandler.shouldRollover
timedShouldRollover(h, today) == today >= h.rolloverAt

\* FileHandler.emit on the files: a stream that is None is opened first (which
\* raises when the directory is gone); what is written to an open stream
\* whose file has been unlinked reaches no file
FileEmitDisk(d, h, level, rec) ==
    IF h.stream = "closed"
    THEN IF IsDir(d.fs, h.dir)
         THEN [d EXCEPT !.fs = Write(OpenAppend(@, get_daily_log_file_path(h.dir, level)),
                                     get_daily_log_file_path(h.dir, level), rec.id)]
         ELSE d
    ELSE IF Exists(d.fs, get_daily_log_file_path(h.dir, level))
         THEN [d EXCEPT !.fs = Write(@, get_daily_log_file_path(h.dir, level), rec.id)]
         ELSE d

\* BaseRotatingHandler.emit on the files; an exception of the rollover goes
\* to handleError and the record is dropped
TimedEmitDisk(d, h, level, today, rec, count, retention) ==
    IF timedShouldRollover(h, today)
    THEN IF RolloverRaises(d.fs, h)
         THEN doRolloverDisk(d, h, level, today, count, retention)
         ELSE FileEmitDisk(doRolloverDisk(d, h, level, today, count, retention),
                           [h EXCEPT !.stream = "open"], level, rec)
    ELSE FileEmitDisk(d, h, level, rec)

\* ... and on the handler
TimedEmit(f, h, today) ==
    IF timedShouldRollover(h, today)
    THEN doRolloverHandler(f, h, today)
    ELSE IF h.stream = "closed" /\ IsDir(f, h.dir)
         THEN [h EXCEPT !.stream = "open"]
         ELSE h

----------------------------------------------------------------------------
(* glog.py: GLogger.                                                       *)

LOG_LEVELS == <<10, 20, 30, 40, 50>>

\* the numbers glog() is given here: three of LOG_LEVELS and one that is not
InputLevelNos == {10, 40, 50, 15}

\* the constructor arguments tried
BackupCounts == {0, 1, 2}
RetentionDays == {0, 1, 7}

\* setup_logger_for_level: the handlers of the logger it returns
setup_logger_for_level(level, mp) ==
    IF mp THEN <<"QueueHandler">> ELSE <<"CustomTimedRotatingFileHandler">>

\* CustomTimedRotatingFileHandler.__init__ on the day it runs: delay = False
\* opens the stream, and when = 'midnight' rolls over at the next midnight
NewFileHandler(today) ==
    [dir |-> DailyDir(today), rolloverAt |-> today + 1, stream |-> "open"]

\* the directory and the file that the constructor of a handler makes
NewFileHandlerDisk(f, level, today) ==
    OpenAppend(MakeDirs(f, DailyDir(today)),
               get_daily_log_file_path(DailyDir(today), level))

RECURSIVE NewFileHandlers(_, _, _)
NewFileHandlers(f, today, i) ==
    IF i > Len(LevelNames)
    THEN f
    ELSE NewFileHandlers(NewFileHandlerDisk(f, LevelNames[i], today), today, i + 1)

\* setup_logging_queue_listener: the handlers it takes from the loggers that
\* self.loggers holds when it is called, QueueHandlers left out; the levels
\* of the loggers they come from, in the order of LOG_LEVELS
setup_logging_queue_listener(lgs) ==
    SelectSeq(LevelNames,
              LAMBDA level : /\ level \in DOMAIN lgs
                             /\ \E i \in 1..Len(lgs[level]) :
                                   lgs[level][i] # "QueueHandler")

\* self.loggers = {}
NoLoggers == [level \in {} |-> << >>]

\* a handler of a logger handles a record: the file handler of the level
\* emits, a QueueHandler is not served here
RECURSIVE CallFileHandlers(_, _, _, _, _, _, _)
CallFileHandlers(d, fh, hs, i, today, rec, cfg) ==
    IF i > Len(hs)
    THEN [d |-> d, fh |-> fh]
    ELSE CallFileHandlers(
             TimedEmitDisk(d, fh[hs[i]], hs[i], today, rec, cfg.count, cfg.retention),
             [fh EXCEPT ![hs[i]] = TimedEmit(d.fs, @, today)],
             hs, i + 1, today, rec, cfg)

\* the levels whose file handler a logger of direct mode calls
OwnFileHandlers(lgs, level) ==
    IF \E i \in 1..Len(lgs[level]) : lgs[level][i] = "CustomTimedRotatingFileHandler"
    THEN <<level>>
    ELSE << >>

\* the variables of g_log.py that glog.py has not
wonly == <<stop_mark, wpc, current_date, handlers, leftover, date_changes,
          unclosed>>

\* GLogger.__init__ after the arguments are stored: with is_multiprocessing
\* the queue listener is set up while self.loggers is still empty, and the
\* loggers are made after it
Constructed ==
    /\ program = "GLogger"
    /\ clock = FirstDay
    /\ queue_listener = IF is_multiprocessing
                        THEN [handlers |-> setup_logging_queue_listener(NoLoggers),
                              thread   |-> "running"]
                        ELSE [handlers |-> << >>, thread |-> "none"]
    /\ loggers = [level \in VALID_LOG_LEVELS |->
                     setup_logger_for_level(level, is_multiprocessing)]
    /\ file_handlers = [level \in VALID_LOG_LEVELS |-> NewFileHandler(FirstDay)]
    /\ fs = NewFileHandlers(NoFiles, FirstDay, 1)
    /\ producer = "running"
    /\ log_queue = << >>
    /\ logged = << >>
    /\ nstops = 0
    /\ dequeued = {}
    /\ rotations = NoRotations
    /\ archived = << >>
    /\ before = << >>
    /\ NoLogWorker

\* GLogger(backupCount, is_multiprocessing, log_retention_days), with
\* telegram_alert left at its default
InitG ==
    /\ is_multiprocessing \in BOOLEAN
    /\ backupCount \in BackupCounts
    /\ log_retention_days \in RetentionDays
    /\ NoAlerts
    /\ Constructed

\* the telegram configuration files a constructor may find: none that can be
\* read, one without a token, one without user ids, two that are complete
TelegramConfigs ==
    {[readable |-> FALSE, bot_token |-> "", user_ids |-> << >>],
     [readable |-> TRUE, bot_token |-> "", user_ids |-> <<"u1">>],
     [readable |-> TRUE, bot_token |-> "token", user_ids |-> << >>],
     [readable |-> TRUE, bot_token |-> "token", user_ids |-> <<"u1">>],
     [readable |-> TRUE, bot_token |-> "token", user_ids |-> <<"u1", "u2">>]}

\* load_telegram_config: the token and the user ids of the file, and
\* telegram_alert = False when the file cannot be read or lacks one of them
load_telegram_config(cfg) ==
    IF ~ cfg.readable \/ cfg.bot_token = "" \/ cfg.user_ids = << >>
    THEN [telegram_alert |-> FALSE, telegram_bot_token |-> "",
          telegram_user_ids |-> << >>]
    ELSE [telegram_alert |-> TRUE, telegram_bot_token |-> cfg.bot_token,
          telegram_user_ids |-> cfg.user_ids]

\* a threshold above ERROR, which the code has not
ShouldAlertAboveError(alert, levelno) == alert /\ levelno > 40

\* as NextRecipient, but a RequestException ends the loop
StopOnFailure(i, n, outcome) ==
    IF outcome = "RequestException" THEN n + 1 ELSE i + 1

\* if self.telegram_alert and level >= logging.ERROR
ShouldAlert(alert, levelno) == alert /\ levelno >= 40

\* send_telegram_alert up to its first requests.post: nothing is sent
\* without a token or without user ids
send_telegram_alert(id, token, users) ==
    IF token = "" \/ users = << >>
    THEN NotSending
    ELSE [id |-> id, i |-> 1]

\* what requests.post(url, data=payload, timeout=10) comes back with: status
\* 200, another status, or a requests.RequestException (the timeout is one)
PostOutcomes == {"200", "400", "RequestException"}

\* for user_id in self.telegram_user_ids: a status that is not 200 and a
\* RequestException are printed, and the loop goes on to the next user id
NextRecipient(i, n, outcome) == i + 1

\* alerts in one behaviour
MaxAlerts == 2

\* the alert of a glog call: send_telegram_alert is called for a record
\* that has a logger when ShouldAlert holds
Alert(rec, levelno) ==
    /\ Len(dispatches) < MaxAlerts
    /\ IF rec.level \in DOMAIN loggers /\ ShouldAlert(telegram_alert, levelno)
       THEN /\ dispatches' = Append(dispatches, rec.id)
            /\ sending' = send_telegram_alert(rec.id, telegram_bot_token,
                                              telegram_user_ids)
       ELSE UNCHANGED <<dispatches, sending>>
    /\ UNCHANGED <<telegram_alert, telegram_bot_token, telegram_user_ids,
                   attempts>>

\* the constructor arguments, as the handlers are given them
Config == [count |-> backupCount, retention |-> log_retention_days]

\* direct_log_message(message, level): logger.log on the logger of the level,
\* nothing for a level that has no logger
direct_log_message(levelno) ==
    /\ program = "GLogger"
    /\ ~ is_multiprocessing
    /\ producer = "running"
    /\ sending = NotSending
    /\ Len(logged) < MaxRecords
    /\ \E rec \in {[id |-> Len(logged) + 1, level |-> getLevelName(levelno),
                    timestamp |-> clock]} :
          /\ logged' = Append(logged, rec)
          /\ Alert(rec, levelno)
          /\ IF rec.level \in DOMAIN loggers
             THEN \E r \in {CallFileHandlers(Disk, file_handlers,
                                             OwnFileHandlers(loggers, rec.level),
                                             1, clock, rec, Config)} :
                     /\ fs' = r.d.fs
                     /\ rotations' = r.d.rot
                     /\ archived' = r.d.arch
                     /\ file_handlers' = r.fh
                     /\ dequeued' = dequeued \cup {rec.id}
             ELSE UNCHANGED <<fs, rotations, archived, file_handlers, dequeued>>
    /\ UNCHANGED <<program, clock, producer, log_queue, nstops, wonly,
                   is_multiprocessing, backupCount, log_retention_days,
                   loggers, queue_listener, before>>

\* enqueue_log_message(message, level): log_queue.put of a record made for
\* the logger of the level, nothing for a level that has no logger
enqueue_log_message(levelno) ==
    /\ program = "GLogger"
    /\ is_multiprocessing
    /\ producer \in {"running", "stopped"}
    /\ sending = NotSending
    /\ Len(logged) < MaxRecords
    /\ \E rec \in {[id |-> Len(logged) + 1, level |-> getLevelName(levelno),
                    timestamp |-> clock]} :
          /\ logged' = Append(logged, rec)
          /\ log_queue' = IF rec.level \in DOMAIN loggers
                          THEN Append(log_queue, rec)
                          ELSE log_queue
          /\ Alert(rec, levelno)
    /\ UNCHANGED <<program, clock, fs, producer, nstops, dequeued, rotations,
                   archived, wonly, is_multiprocessing, backupCount,
                   log_retention_days, file_handlers, loggers, queue_listener,
                   before>>

\* QueueListener._monitor, one turn: dequeue, stop at the sentinel, else
\* handle(record) gives the record to every handler of the listener
monitor ==
    /\ program = "GLogger"
    /\ queue_listener.thread = "running"
    /\ log_queue # << >>
    /\ log_queue' = Tail(log_queue)
    /\ IF Head(log_queue) = None
       THEN /\ queue_listener' = [queue_listener EXCEPT !.thread = "stopped"]
            /\ UNCHANGED <<fs, rotations, archived, file_handlers, dequeued>>
       ELSE \E r \in {CallFileHandlers(Disk, file_handlers,
                                       queue_listener.handlers,
                                       1, clock, Head(log_queue), Config)} :
               /\ fs' = r.d.fs
               /\ rotations' = r.d.rot
               /\ archived' = r.d.arch
               /\ file_handlers' = r.fh
               /\ dequeued' = dequeued \cup {Head(log_queue).id}
               /\ UNCHANGED queue_listener
    /\ UNCHANGED <<program, clock, producer, logged, nstops, wonly,
                   is_multiprocessing, backupCount, log_retention_days,
                   loggers, before, avars>>

\* stop_logging_queue_listener: with is_multiprocessing, queue_listener.stop()
\* enqueues the sentinel and joins the thread
stop_logging_queue_listener ==
    /\ program = "GLogger"
    /\ producer = "running"
    /\ sending = NotSending
    /\ nstops = 0
    /\ nstops' = 1
    /\ IF is_multiprocessing
       THEN /\ log_queue' = Append(log_queue, None)
            /\ producer' = "joining"
       ELSE UNCHANGED <<log_queue, producer>>
    /\ UNCHANGED <<program, clock, fs, logged, dequeued, rotations, archived,
                   wonly, gvars>>

\* queue_listener.stop(): the join returns and self._thread = None
listener_joined ==
    /\ program = "GLogger"
    /\ producer = "joining"
    /\ queue_listener.thread = "stopped"
    /\ producer' = "stopped"
    /\ queue_listener' = [queue_listener EXCEPT !.thread = "none"]
    /\ UNCHANGED <<program, clock, fs, log_queue, logged, nstops, dequeued,
                   rotations, archived, wonly,
                   is_multiprocessing, backupCount, log_retention_days,
                   file_handlers, loggers, before, avars>>

\* requests.post returns inside send_telegram_alert: the outcome is printed
\* unless it is status 200, and the loop takes the next user id or ends
post_returns(outcome) ==
    /\ program = "GLogger"
    /\ sending # NotSending
    /\ attempts' = Append(attempts,
                          [id |-> sending.id,
                           user |-> telegram_user_ids[sending.i],
                           outcome |-> outcome])
    /\ \E next \in {NextRecipient(sending.i, Len(telegram_user_ids), outcome)} :
          sending' = IF next > Len(telegram_user_ids)
                     THEN NotSending
                     ELSE [sending EXCEPT !.i = next]
    /\ UNCHANGED <<program, clock, fs, wvars, is_multiprocessing, backupCount,
                   log_retention_days, file_handlers, loggers, queue_listener,
                   before, telegram_alert, telegram_bot_token,
                   telegram_user_ids, dispatches>>

NextG ==
    \/ Tick
    \/ \E levelno \in InputLevelNos : direct_log_message(levelno)
    \/ \E levelno \in InputLevelNos : enqueue_log_message(levelno)
    \/ monitor
    \/ stop_logging_queue_listener
    \/ listener_joined

SpecG == InitG /\ [][NextG]_vars

\* the rotating handlers of both programs
InitR == InitH \/ InitG

NextR ==
    \/ Tick
    \/ \E level \in {"DEBUG", "CRITICAL"} : handle(level)
    \/ \E levelno \in InputLevelNos : direct_log_message(levelno)
    \/ \E levelno \in InputLevelNos : enqueue_log_message(levelno)
    \/ monitor
    \/ stop_logging_queue_listener
    \/ listener_joined

SpecR == InitR /\ [][NextR]_vars

\* GLogger(telegram_alert=True) and the telegram configuration file it finds
InitA ==
    /\ is_multiprocessing \in BOOLEAN
    /\ backupCount = BackupCount
    /\ log_retention_days = 7
    /\ \E cfg \in TelegramConfigs :
          \E loaded \in {load_telegram_config(cfg)} :
             /\ telegram_alert = loaded.telegram_alert
             /\ telegram_bot_token = loaded.telegram_bot_token
             /\ telegram_user_ids = loaded.telegram_user_ids
    /\ sending = NotSending
    /\ attempts = << >>
    /\ dispatches = << >>
    /\ Constructed

\* the levels of the glog calls: below the threshold, ERROR and CRITICAL
AlertLevelNos == {10, 40, 50}

\* the calls of one day
NextA ==
    \/ \E levelno \in AlertLevelNos : direct_log_message(levelno)
    \/ \E levelno \in AlertLevelNos : enqueue_log_message(levelno)
    \/ monitor
    \/ stop_logging_queue_listener
    \/ listener_joined
    \/ \E outcome \in PostOutcomes : post_returns(outcome)

SpecA == InitA /\ [][NextA]_vars

----------------------------------------------------------------------------
(* glog.py: cleanup_old_logs run on the trees a log directory may hold.    *)

\* runs of the sweep in one behaviour
MaxSweeps == 2

TreeYears == {"2023", "2024", "123", "archive"}
TreeMonths == {"December", "January", "February", "Jan"}
TreeDays == {"27", "28", "30", "31", "tmp"}
TreeKinds == {"empty", "files", "subdir", "notdir"}
TreeCompanions ==
    {"none", "sibling", "monthfile", "yearfile", "othermonth", "otheryear"}
TreeRetentions == {0, 2, 7}

\* a day entry of a month directory: a regular file, an empty directory, a
\* directory of log files, or one that also holds a directory
DayEntry(f, p, kind) ==
    CASE kind = "notdir" -> f @@ (p :> File(<< >>))
      [] kind = "empty"  -> MakeDirs(f, p)
      [] kind = "files"  -> OpenAppend(MakeDirs(f, p), Append(p, "debug.log"))
      [] kind = "subdir" -> OpenAppend(OpenAppend(MakeDirs(f, Append(p, "old")),
                                                  Append(p, "debug.log")),
                                       p \o <<"old", "debug.log">>)

\* what else the year holds
Companion(f, p, what) ==
    CASE what = "none"       -> f
      [] what = "sibling"    -> OpenAppend(MakeDirs(f, <<p[1], p[2], "26">>),
                                           <<p[1], p[2], "26", "debug.log">>)
      [] what = "monthfile"  -> OpenAppend(f, <<p[1], p[2], "notes.txt">>)
      [] what = "yearfile"   -> OpenAppend(f, <<p[1], "notes.txt">>)
      [] what = "othermonth" -> MakeDirs(f, <<p[1], "March", "01">>)
      [] what = "otheryear"  -> MakeDirs(f, <<IF p[1] = "2023" THEN "2024"
                                                               ELSE "2023",
                                              "January", "01">>)

Tree(p, kind, what) ==
    Companion(DayEntry(MakeDirs(NoFiles, <<p[1], p[2]>>), p, kind), p, what)

InitS ==
    /\ program = "cleanup_old_logs"
    /\ clock = FirstDay
    /\ \E y \in TreeYears, m \in TreeMonths, d \in TreeDays,
          kind \in TreeKinds, what \in TreeCompanions :
          fs = Tree(<<y, m, d>>, kind, what)
    /\ log_retention_days \in TreeRetentions
    /\ is_multiprocessing = FALSE
    /\ backupCount = 0
    /\ file_handlers = << >>
    /\ loggers = << >>
    /\ queue_listener = [handlers |-> << >>, thread |-> "none"]
    /\ before = << >>
    /\ NoAlerts
    /\ producer = "running"
    /\ log_queue = << >>
    /\ logged = << >>
    /\ nstops = 0
    /\ dequeued = {}
    /\ rotations = NoRotations
    /\ archived = << >>
    /\ NoLogWorker

\* one run of the retention sweep
sweep ==
    /\ program = "cleanup_old_logs"
    /\ Len(before) < MaxSweeps
    /\ before' = Append(before, [tree |-> fs, today |-> clock])
    /\ fs' = cleanup_old_logs(fs, clock, log_retention_days)
    /\ UNCHANGED <<program, clock, wvars, is_multiprocessing, backupCount,
                   log_retention_days, file_handlers, loggers, queue_listener,
                   avars>>

NextS ==
    \/ Tick
    \/ sweep

SpecS == InitS /\ [][NextS]_vars

----------------------------------------------------------------------------
(* What the properties below speak of.                                     *)

Range(seq) == {seq[i] : i \in 1..Len(seq)}

IsFile(p) == fs[p].kind = "file"

\* the files of the g_log.py Sink of a level: <Root>.txt and its numbered
\* backups <Root><n>.txt, in the directory of any day
SinkNames(level) ==
    {FileRoot(level) \o ".txt"} \cup
    {FileRoot(level) \o ToString(n) \o ".txt" : n \in 1..rotations[level]}

SinkFiles(level) ==
    {p \in DOMAIN fs : IsFile(p) /\ p[Len(p)] \in SinkNames(level)}

BackupFiles(level) ==
    {p \in SinkFiles(level) : p[Len(p)] # FileRoot(level) \o ".txt"}

\* the record is in a file of the Sink of its level
Written(rec) == \E p \in SinkFiles(rec.level) : rec.id \in Range(fs[p].content)

Increasing(seq) == \A i, j \in 1..Len(seq) : i < j => seq[i] < seq[j]

----------------------------------------------------------------------------
(* The properties.                                                         *)

\* the files of the glog.py Sink of a level: <level>.log and its dated
\* backups, in the directory of any day
GSinkFiles(level) ==
    {p \in DOMAIN fs :
        /\ IsFile(p)
        /\ Len(p) = 4
        /\ \/ p[4] = LevelFile(level)
           \/ \E day \in RunDays : p[4] = LevelFile(level) \o "." \o DateSuffix(day)}

\* the places in the files of a Sink where a record stands
Places(id, files) ==
    {<<p, i>> \in UNION {{p} \X (1..Len(fs[p].content)) : p \in files} :
        fs[p].content[i] = id}

Min(a, b) == IF a <= b THEN a ELSE b

\* the backups made for the Sink of a level, in order
ArchivedOf(level) == SelectSeq(archived, LAMBDA a : a.level = level)

\* C1: in GLogger, in direct mode and in multiprocessing mode alike, every
\* record of a valid level that the writing side has taken up (handled by
\* the logger, or dequeued by the queue listener) stands exactly once in the
\* files of the Sink of its level; stated for the time before the first
\* rollover, when nothing has yet been pruned or swept.
C1_DeliveredOnce ==
    (program = "GLogger" /\ \A level \in VALID_LOG_LEVELS : rotations[level] = 0)
    => \A i \in 1..Len(logged) :
          (i \in dequeued /\ logged[i].level \in VALID_LOG_LEVELS)
          => Cardinality(Places(i, GSinkFiles(logged[i].level))) = 1

\* C2: when stop_logging() has returned and the LogWorker has ended by its
\* sentinel, every record of a valid level that log() had put before the call
\* is in a file of the Sink of its level.
C2_StopFlushesAll ==
    (program = "Glogger" /\ producer = "stopped" /\ wpc = "sentinel") =>
        \A i \in 1..stop_mark :
            logged[i].level \in VALID_LOG_LEVELS => Written(logged[i])

\* C3: the LogWorker loop ends only by the sentinel or by finding the
\* producer dead, never by a record of an invalid level.
C3_BadRecordKeepsLoop == WorkerEnded => wpc \in {"sentinel", "orphan"}

\* C4: once the producer has ended without a stop_logging() call, the
\* LogWorker eventually leaves its loop.
C4_OrphanDetected == (producer = "dead" /\ nstops = 0) ~> WorkerEnded

\* C5: when the LogWorker has ended by the sentinel or by finding the
\* producer dead, every record of a valid level that was in the queue at that
\* moment is in a file of the Sink of its level.
C5_DrainedAtShutdown ==
    wpc \in {"sentinel", "orphan"} =>
        \A k \in 1..Len(leftover) :
            leftover[k].level \in VALID_LOG_LEVELS => Written(leftover[k])

\* C6: in every file the records stand in the order log() put them.
C6_FileOrderIsEnqueueOrder ==
    \A p \in DOMAIN fs : IsFile(p) => Increasing(fs[p].content)

\* C6 witness: a rolled-over Debug file holds two records of different
\* levels, written by one flush of the memory buffer
C6_Witness ==
    /\ program = "Glogger"
    /\ \E p \in BackupFiles("DEBUG") :
          \E i, j \in Range(fs[p].content) :
             i < j /\ logged[i].level # logged[j].level

\* C7: when a DEBUG record of day D and then a DEBUG record of day D+1 have
\* been processed, a numbered backup of the Debug file in the directory of
\* day D holds the day-D record.
C7_DateChangeRotates ==
    \A j \in date_changes :
        (/\ j > 1
         /\ logged[j].level = "DEBUG"
         /\ logged[j - 1].level = "DEBUG"
         /\ logged[j].timestamp = logged[j - 1].timestamp + 1
         /\ wpc = "alive_check")
        => \E p \in BackupFiles("DEBUG") :
              /\ SubSeq(p, 1, Len(p) - 1) = LogDirPath(logged[j - 1].timestamp)
              /\ (j - 1) \in Range(fs[p].content)

\* C8 as amended: a rotation never overwrites a backup.  Every rotation
\* archives the current file under a name that no earlier rotation has used
\* (g_log.py probes the suffixes 1, 2, 3, ...; glog.py appends the date), so
\* N rotations of a LogWorker Sink have made N distinct backup names, and a
\* backup that is still there holds exactly what was archived under its name.
\* A backup may be deleted later: glog.py prunes beyond backupCount and sweeps
\* expired day directories.
C8_NeverOverwrites ==
    /\ \A i, j \in 1..Len(archived) :
          i # j => archived[i].path # archived[j].path
    /\ \A i \in 1..Len(archived) :
          archived[i].path \in DOMAIN fs
          => fs[archived[i].path] = File(archived[i].content)
    /\ program = "LogWorker"
       => \A level \in VALID_LOG_LEVELS :
             Len(ArchivedOf(level)) = rotations[level]

\* C8 witness: a LogWorker Sink has rotated three times, more often than its
\* backupCount, and its three backups are there
C8_Witness ==
    /\ program = "LogWorker"
    /\ \E level \in VALID_LOG_LEVELS :
          /\ rotations[level] = 3
          /\ rotations[level] > BackupCount
          /\ Cardinality(BackupFiles(level)) = 3

\* C8 as stated: a rotation never overwrites or deletes a backup, so every
\* backup ever made is still there with what was archived, and N rotations
\* leave N distinct backup files.
C8_NeverOverwritesOrDeletes ==
    /\ \A i, j \in 1..Len(archived) :
          i # j => archived[i].path # archived[j].path
    /\ \A i \in 1..Len(archived) :
          /\ archived[i].path \in DOMAIN fs
          /\ fs[archived[i].path] = File(archived[i].content)

\* C9: the backups kept for a Sink are min(rotations, backup count) in
\* number, and a backup is removed only when every older one is removed.
\* For glog.py this is stated for a positive backupCount and while the
\* directory of the handler is there.
C9_BackupsKept ==
    /\ program = "LogWorker"
       => \A level \in VALID_LOG_LEVELS :
             Cardinality(BackupFiles(level)) = Min(rotations[level], BackupCount)
    /\ program = "GLogger"
       => \A level \in VALID_LOG_LEVELS :
             (backupCount > 0 /\ IsDir(fs, file_handlers[level].dir))
             => /\ Cardinality(TimedBackups(fs, file_handlers[level].dir, level))
                      = Min(rotations[level], backupCount)
                /\ \A i, j \in 1..Len(ArchivedOf(level)) :
                      (i < j /\ ArchivedOf(level)[j].path \notin DOMAIN fs)
                      => ArchivedOf(level)[i].path \notin DOMAIN fs

\* the entries of a tree at or below a path
Subtree(f, p) ==
    {q \in DOMAIN f : Len(q) >= Len(p) /\ SubSeq(q, 1, Len(p)) = p}

\* the partition directories of a tree: Logs/<year>/<month>/<day>
Partitions(f) ==
    {p \in DOMAIN f : Len(p) = 3 /\ f[p].kind = "dir"}

\* C10: after a run of the retention sweep, every partition directory whose
\* date is strictly older than today minus retention_days is gone, whatever
\* it held, and every other partition directory, in the window or with a
\* name that is no date, is there with all it held.
C10_SweepDeletesAllAndOnlyExpired ==
    (program = "cleanup_old_logs" /\ before # << >>)
    => LET last == before[Len(before)]
       IN  \A p \in Partitions(last.tree) :
              IF IsOld(p, last.today - log_retention_days)
              THEN p \notin DOMAIN fs
              ELSE \A q \in Subtree(last.tree, p) :
                      q \in DOMAIN fs /\ fs[q] = last.tree[q]

\* the records in a queue, the sentinel left out
Records(q) == {q[k] : k \in 1..Len(q)} \ {None}

\* C11: once stop_logging() has been called, no step puts a record on the
\* channel: a later log() call adds nothing to log_queue.
C11_NoAcceptAfterStop ==
    [][(program = "Glogger" /\ nstops > 0)
         => Records(log_queue') \subseteq Records(log_queue)]_vars

\* C12: a log call completes in one step of the producer: in no state is a
\* call of enqueue_log_message still inside send_telegram_alert, waiting for
\* requests.post.
C12_LogCallNeverWaits ==
    (program = "GLogger" /\ is_multiprocessing) => sending = NotSending

\* how often x occurs in the sequence s
Count(s, x) == Cardinality({k \in 1..Len(s) : s[k] = x})

\* C13: with alerts on, send_telegram_alert is called exactly once for each
\* logged record of level ERROR or CRITICAL, and never for a record of
\* another level.
C13_OneDispatchPerErrorRecord ==
    (program = "GLogger" /\ telegram_alert)
      => /\ \A k \in 1..Len(logged) :
               Count(dispatches, logged[k].id)
                 = IF logged[k].level \in {"ERROR", "CRITICAL"} THEN 1 ELSE 0
         /\ \A k \in 1..Len(dispatches) :
               \E j \in 1..Len(logged) : logged[j].id = dispatches[k]

\* a DEBUG record and then a CRITICAL record were logged and the call is
\* over: one dispatch, for the CRITICAL record
C13_Witness ==
    /\ program = "GLogger"
    /\ telegram_alert
    /\ Len(logged) = 2
    /\ logged[1].level = "DEBUG"
    /\ logged[2].level = "CRITICAL"
    /\ dispatches = <<2>>
    /\ sending = NotSending

\* the users a dispatch for record id has attempted, in the order of attempts
RECURSIVE Attempted(_, _)
Attempted(as, id) ==
    IF as = << >>
    THEN << >>
    ELSE IF Head(as).id = id
         THEN <<Head(as).user>> \o Attempted(Tail(as), id)
         ELSE Attempted(Tail(as), id)

\* C14: a dispatch that is over has made exactly one attempt for every
\* configured user id, in their order, whatever the outcomes of the attempts
\* were; a failed attempt ends neither the dispatch nor the log call early.
C14_EveryRecipientAttempted ==
    program = "GLogger"
      => \A k \in 1..Len(dispatches) :
            IF sending.id = dispatches[k]
            THEN Attempted(attempts, dispatches[k])
                   = SubSeq(telegram_user_ids, 1, sending.i - 1)
            ELSE Attempted(attempts, dispatches[k]) = telegram_user_ids

\* a dispatch to two users is over, and its attempt for the first user ended
\* in a RequestException, the one for the second in a status that is not 200
C14_Witness ==
    /\ program = "GLogger"
    /\ Len(telegram_user_ids) = 2
    /\ dispatches # << >>
    /\ sending = NotSending
    /\ Len(attempts) >= 2
    /\ attempts[1].outcome = "RequestException"
    /\ attempts[2].outcome = "400"
    /\ attempts[2].user = telegram_user_ids[2]

\* C15: whatever was logged before it, a stop_logging() call that has put
\* the sentinel is followed by the end of the LogWorker and by the return of
\* the call.
C15_StopReturns ==
    (program = "Glogger" /\ producer = "joining")
       ~> (WorkerEnded /\ producer = "stopped")

\* stop_logging() has returned after records of a valid and of an invalid
\* level were logged
C15_Witness ==
    /\ program = "Glogger"
    /\ nstops > 0
    /\ producer = "stopped"
    /\ WorkerEnded
    /\ \E k \in 1..Len(logged) : logged[k].level \in VALID_LOG_LEVELS
    /\ \E k \in 1..Len(logged) : logged[k].level \notin VALID_LOG_LEVELS
    /\ stop_mark = Len(logged)

\* the file handles of a level that are open: the stream of the handler in
\* use and the streams of dropped handlers that were not closed
OpenHandles(level) ==
    Count([i \in 1..Len(handlers) |-> handlers[i].level], level)
      + Count([i \in 1..Len(unclosed) |-> unclosed[i].level], level)

C17_CurrentFileInTodaysPartition ==
    (program = "GLogger" /\ ~ is_multiprocessing)
      => \A level \in VALID_LOG_LEVELS :
            ~ timedShouldRollover(file_handlers[level], clock)
              => file_handlers[level].dir = DailyDir(clock)

\* C18: the retention sweep leaves the active files alone: a file handler of
\* glog.py whose stream is open has its file, and the directory of the file,
\* on the disk.
C18_ActiveFileSurvivesSweep ==
    (program = "GLogger" /\ ~ is_multiprocessing)
      => \A level \in VALID_LOG_LEVELS :
            file_handlers[level].stream = "open"
              => /\ IsDir(fs, file_handlers[level].dir)
                 /\ Exists(fs, get_daily_log_file_path(file_handlers[level].dir,
                                                       level))

\* C19: the file of a level holds records of that level only: every record
\* in Debug.txt, Info.txt, Warning.txt, Error.txt or Critical.txt of a day
\* was logged with the level of the file.
C19_FileHoldsItsLevelOnly ==
    program = "Glogger"
      => \A p \in DOMAIN fs :
            \A level \in VALID_LOG_LEVELS :
               (fs[p].kind = "file" /\ p[Len(p)] = FileRoot(level) \o ".txt")
                 => \A k \in 1..Len(fs[p].content) :
                       logged[fs[p].content[k]].level = level

\* C20: at most one sentinel is ever put on the channel: once stop_logging()
\* has been called, no step adds a sentinel to log_queue.
C20_OneSentinel ==
    [][(program = "Glogger" /\ nstops > 0)
         => Count(log_queue', None) <= Count(log_queue, None)]_vars

\* a day directory that os.rmdir cannot remove once its files are gone: one
\* that holds a directory
Undeletable(t, p) == \E c \in Children(t, p) : t[c].kind = "dir"

\* the day directories of tree t that a sweep with this cutoff is to delete
Expired(t, cutoff) == {p \in DayDirs(t) : IsOld(p, cutoff)}

\* a directory of tree f is there exactly when it has an entry
ThereIffInUse(f, path) == Exists(f, path) <=> Children(f, path) # {}

\* the sweep of tree t has left tree f
SweptDespiteFailure(t, f, cutoff) ==
    /\ \A p \in Expired(t, cutoff) : Exists(f, p) <=> Undeletable(t, p)
    /\ \A p \in Expired(t, cutoff) :
          ~ Exists(f, p) => /\ ThereIffInUse(f, <<p[1], p[2]>>)
                            /\ ThereIffInUse(f, <<p[1]>>)

\* C21: an expired day directory that cannot be deleted stays and stops
\* nothing: after a run of the sweep every other expired day directory is
\* gone, in the same month and in other months and years, and the month and
\* the year directory of a deleted day are gone exactly when nothing is left
\* in them.
C21_SweepToleratesFailure ==
    (program = "cleanup_old_logs" /\ before # << >>)
      => SweptDespiteFailure(before[Len(before)].tree, fs,
                             before[Len(before)].today - log_retention_days)

\* a sweep met an expired day directory that it could not delete and one, in
\* another year, that it deleted with its month and its year directory
C21_Witness ==
    /\ program = "cleanup_old_logs"
    /\ before # << >>
    /\ \E p, q \in Expired(before[Len(before)].tree,
                          before[Len(before)].today - log_retention_days) :
          /\ Undeletable(before[Len(before)].tree, p)
          /\ Exists(fs, p)
          /\ q[1] # p[1]
          /\ ~ Exists(fs, q)
          /\ ~ Exists(fs, <<q[1]>>)

\* a sweep met an expired day directory that it could not delete and deleted
\* another one of the same month, whose month directory stays
C21_WitnessSameMonth ==
    /\ program = "cleanup_old_logs"
    /\ before # << >>
    /\ \E p, q \in Expired(before[Len(before)].tree,
                          before[Len(before)].today - log_retention_days) :
          /\ Undeletable(before[Len(before)].tree, p)
          /\ Exists(fs, p)
          /\ q # p /\ q[1] = p[1] /\ q[2] = p[2]
          /\ ~ Exists(fs, q)
          /\ Exists(fs, <<q[1], q[2]>>)

====
